---- MODULE Spec2Model ----
(***************************************************************************)
(* Model of src/utils/countpdf.py: a linear script that enumerates the     *)
(* immediate subdirectories of a base directory, classifies each one as    *)
(* PDF, DOCX or TeX from the result of one os.scandir and three glob.glob  *)
(* calls, prints the counts, computes the unclassified folders and prints  *)
(* them.  The file system is the environment: it is chosen in Init and     *)
(* never changes during a run.  File and folder names are sequences of     *)
(* one-character strings so that glob's pattern matching is computed.      *)
(***************************************************************************)
EXTENDS Integers, Sequences, FiniteSets, TLC

VARIABLES fs, pc, exc, out, subfolders,
          count_pdf, path_pdf, count_docx, path_docx, count_tex, path_tex,
          i, folder, files, not_defineds, count, j

vars == <<fs, pc, exc, out, subfolders,
          count_pdf, path_pdf, count_docx, path_docx, count_tex, path_tex,
          i, folder, files, not_defineds, count, j>>

(***************************************************************************)
(* Bounds of the model.                                                    *)
(***************************************************************************)
\* number of entries of the base directory
MaxFolders == 2
\* number of directory entries in all the subfolders together
MaxEntries == 3

(***************************************************************************)
(* Names.                                                                  *)
(***************************************************************************)
\* name of the k-th entry of the base directory: "ab", "a[b]", "c", "cc", ...
FolderName(k) ==
    IF k = 1 THEN <<"a", "b">>
    ELSE IF k = 2 THEN <<"a", "[", "b", "]">>
    ELSE [n \in 1..(k - 2) |-> "c"]

BaseEntries == 1..MaxFolders

\* the directory entries a subfolder may hold
EntryUniverse ==
    { [name |-> <<"a", ".", "p", "d", "f">>,      kind |-> "file"],
      [name |-> <<"p", ".", "p", "d", "f">>,      kind |-> "dir"],
      [name |-> <<"b", ".", "d", "o", "c", "x">>, kind |-> "file"],
      [name |-> <<"q", ".", "d", "o", "c", "x">>, kind |-> "dir"],
      [name |-> <<"c", ".", "t", "e", "x">>,      kind |-> "file"],
      [name |-> <<"r", ".", "t", "e", "x">>,      kind |-> "dir"],
      [name |-> <<"d", ".", "t", "x", "t">>,      kind |-> "file"] }

PatPdf  == <<"*", ".", "p", "d", "f">>
PatDocx == <<"*", ".", "d", "o", "c", "x">>
PatTex  == <<"*", ".", "t", "e", "x">>

(***************************************************************************)
(* fnmatch and glob.                                                       *)
(***************************************************************************)
MagicChars == {"*", "?", "["}

\* glob.has_magic: the string holds one of * ? [
HasMagic(s) == \E k \in 1..Len(s) : s[k] \in MagicChars

\* glob._ishidden
IsHidden(s) == Len(s) > 0 /\ s[1] = "."

\* position of the "]" closing the character class that p opens with "[",
\* or 0 when the class is not closed (fnmatch.translate then takes "["
\* literally).  A "!" and a "]" right after the "[" do not close it.
ClassEnd(p) ==
    LET n  == Len(p)
        s1 == IF 2 <= n /\ p[2] = "!" THEN 3 ELSE 2
        s2 == IF s1 <= n /\ p[s1] = "]" THEN s1 + 1 ELSE s1
        closers == { k \in s2..n : p[k] = "]" }
    IN  IF closers = {} THEN 0
        ELSE CHOOSE k \in closers : \A m \in closers : k <= m

\* does character c belong to the class p[2..e-1] (ranges a-z are not used by
\* the names of this model)
InClass(c, p, e) ==
    LET neg   == p[2] = "!"
        first == IF neg THEN 3 ELSE 2
        mem   == \E k \in first..(e - 1) : p[k] = c
    IN  IF neg THEN ~mem ELSE mem

RECURSIVE FnMatch(_, _)
\* fnmatch.fnmatchcase(name, pat) on a POSIX system (case sensitive)
FnMatch(name, pat) ==
    IF pat = <<>> THEN name = <<>>
    ELSE IF pat[1] = "*" THEN
        \/ FnMatch(name, Tail(pat))
        \/ name # <<>> /\ FnMatch(Tail(name), pat)
    ELSE IF pat[1] = "?" THEN
        name # <<>> /\ FnMatch(Tail(name), Tail(pat))
    ELSE IF pat[1] = "[" /\ ClassEnd(pat) # 0 THEN
        /\ name # <<>>
        /\ InClass(name[1], pat, ClassEnd(pat))
        /\ FnMatch(Tail(name), SubSeq(pat, ClassEnd(pat) + 1, Len(pat)))
    ELSE
        name # <<>> /\ name[1] = pat[1] /\ FnMatch(Tail(name), Tail(pat))

\* glob._glob1 filter: names matching pat, hidden names skipped because the
\* pattern does not start with a dot
GlobMatches(name, pat) ==
    (IsHidden(pat) \/ ~IsHidden(name)) /\ FnMatch(name, pat)

\* the directories glob expands the directory part of the pathname to: the
\* folder itself when its name holds no magic character, else every
\* directory of the base directory whose name matches the folder's name
\* taken as a pattern
GlobDirs(f, k) ==
    IF HasMagic(FolderName(k))
    THEN { d \in BaseEntries :
             f[d].isdir /\ GlobMatches(FolderName(d), FolderName(k)) }
    ELSE { k }

\* glob.glob(os.path.join(folder, pat)): one path per matching entry (file or
\* directory) of every directory of GlobDirs
Glob(f, k, pat) ==
    UNION { { <<d, e.name>> :
                e \in { x \in f[d].entries : GlobMatches(x.name, pat) } } :
            d \in GlobDirs(f, k) }

\* [f.path for f in os.scandir(folder) if os.path.isfile(f)]
RegularFiles(f, k) == { e \in f[k].entries : e.kind = "file" }

(***************************************************************************)
(* The file systems of the model: every entry of the base directory is a   *)
(* directory or a regular file, and the directories hold at most           *)
(* MaxEntries entries of EntryUniverse together.                           *)
(***************************************************************************)
RECURSIVE SubsetsUpTo(_, _)
SubsetsUpTo(S, k) ==
    IF k = 0 \/ S = {} THEN { {} }
    ELSE LET x    == CHOOSE y \in S : TRUE
             rest == S \ {x}
         IN  SubsetsUpTo(rest, k) \cup
             { T \cup {x} : T \in SubsetsUpTo(rest, k - 1) }

MakeFs(D, S) ==
    [k \in BaseEntries |->
        [isdir |-> k \in D,
         entries |-> { e \in EntryUniverse : <<k, e>> \in S }]]

(***************************************************************************)
(* Helpers on lists.                                                       *)
(***************************************************************************)
\* folder in lst
InList(x, lst) == \E k \in 1..Len(lst) : lst[k] = x

RECURSIVE ListRemove(_, _)
\* list.remove(x): the list without the first occurrence of x
ListRemove(lst, x) ==
    IF lst = <<>> THEN <<>>
    ELSE IF Head(lst) = x THEN Tail(lst)
    ELSE <<Head(lst)>> \o ListRemove(Tail(lst), x)

\* the entries of the base directory that pass f.is_dir()
DirsOf(f) == { k \in BaseEntries : f[k].isdir }

\* os.scandir yields the entries in an arbitrary order, each once: the lists
\* that [f.path for f in os.scandir(p) if f.is_dir()] can evaluate to
Enumerations(S) ==
    { s \in [1..Cardinality(S) -> S] :
        \A a, b \in 1..Cardinality(S) : a # b => s[a] # s[b] }

\* the three conditions of the classification loop
IsPdf(f, k)  == Cardinality(RegularFiles(f, k)) = 1
                /\ Cardinality(Glob(f, k, PatPdf)) = 1
IsDocx(f, k) == Cardinality(RegularFiles(f, k)) = 1
                /\ Cardinality(Glob(f, k, PatDocx)) = 1
IsTex(f, k)  == Cardinality(RegularFiles(f, k)) > 1
                /\ Cardinality(Glob(f, k, PatTex)) > 0

\* the condition of the commented-out line 38, which tests the PDF list alone
InPdfCategory(x, pp, pd, pt) == InList(x, pp)

\* the condition of the removal loop
InSomeCategory(x, pp, pd, pt) ==
    InList(x, pp) \/ InList(x, pd) \/ InList(x, pt)

\* one printed line
Line(label, val) == [label |-> label, val |-> val]

(***************************************************************************)
(* Initial state: the interpreter is about to run line 8.                  *)
(***************************************************************************)
Init ==
    /\ \E D \in SUBSET BaseEntries :
         \E S \in SubsetsUpTo(D \X EntryUniverse, MaxEntries) :
           fs = MakeFs(D, S)
    /\ pc = "scan"
    /\ exc = "none"
    /\ out = <<>>
    /\ subfolders = <<>>
    /\ count_pdf = 0 /\ path_pdf = <<>>
    /\ count_docx = 0 /\ path_docx = <<>>
    /\ count_tex = 0 /\ path_tex = <<>>
    /\ i = 0
    /\ folder = 0
    /\ files = {}
    /\ not_defineds = <<>>
    /\ count = 0
    /\ j = 0

(***************************************************************************)
(* Actions: one per statement of the script.                               *)
(***************************************************************************)
\* line 8
ScanBase ==
    /\ pc = "scan"
    /\ \E s \in Enumerations(DirsOf(fs)) : subfolders' = s
    /\ pc' = "print_subfolders"
    /\ UNCHANGED <<fs, exc, out, count_pdf, path_pdf, count_docx, path_docx,
                   count_tex, path_tex, i, folder, files, not_defineds,
                   count, j>>

\* line 8, os.scandir(p) raises OSError
ScanBaseFail ==
    /\ pc = "scan"
    /\ exc' = "OSError"
    /\ pc' = "failed"
    /\ UNCHANGED <<fs, out, subfolders, count_pdf, path_pdf, count_docx,
                   path_docx, count_tex, path_tex, i, folder, files,
                   not_defineds, count, j>>

\* line 9
PrintSubfolders ==
    /\ pc = "print_subfolders"
    /\ out' = Append(out, Line("subfolders", subfolders))
    /\ pc' = "init"
    /\ UNCHANGED <<fs, exc, subfolders, count_pdf, path_pdf, count_docx,
                   path_docx, count_tex, path_tex, i, folder, files,
                   not_defineds, count, j>>

\* lines 11-16, and the iterator of the for loop of line 17
InitCounters ==
    /\ pc = "init"
    /\ count_pdf' = 0 /\ path_pdf' = <<>>
    /\ count_docx' = 0 /\ path_docx' = <<>>
    /\ count_tex' = 0 /\ path_tex' = <<>>
    /\ i' = 1
    /\ pc' = "classify"
    /\ UNCHANGED <<fs, exc, out, subfolders, folder, files, not_defineds,
                   count, j>>

\* the loop of line 17 with a print of the folder in its body
ClassifyPrinting ==
    /\ pc = "classify"
    /\ i <= Len(subfolders)
    /\ folder' = subfolders[i]
    /\ files' = RegularFiles(fs, subfolders[i])
    /\ out' = Append(out, Line("folder", subfolders[i]))
    /\ IF IsPdf(fs, subfolders[i])
       THEN count_pdf' = count_pdf + 1
            /\ path_pdf' = Append(path_pdf, subfolders[i])
       ELSE UNCHANGED <<count_pdf, path_pdf>>
    /\ IF IsDocx(fs, subfolders[i])
       THEN count_docx' = count_docx + 1
            /\ path_docx' = Append(path_docx, subfolders[i])
       ELSE UNCHANGED <<count_docx, path_docx>>
    /\ IF IsTex(fs, subfolders[i])
       THEN count_tex' = count_tex + 1
            /\ path_tex' = Append(path_tex, subfolders[i])
       ELSE UNCHANGED <<count_tex, path_tex>>
    /\ i' = i + 1
    /\ UNCHANGED <<fs, pc, exc, subfolders, not_defineds, count, j>>

\* the loop of line 17 with line 23 incrementing count_pdf instead of
\* count_docx
ClassifyMiscount ==
    /\ pc = "classify"
    /\ i <= Len(subfolders)
    /\ folder' = subfolders[i]
    /\ files' = RegularFiles(fs, subfolders[i])
    /\ count_pdf' = count_pdf
                    + (IF IsPdf(fs, subfolders[i]) THEN 1 ELSE 0)
                    + (IF IsDocx(fs, subfolders[i]) THEN 1 ELSE 0)
    /\ path_pdf' = IF IsPdf(fs, subfolders[i])
                   THEN Append(path_pdf, subfolders[i]) ELSE path_pdf
    /\ count_docx' = count_docx
    /\ path_docx' = IF IsDocx(fs, subfolders[i])
                    THEN Append(path_docx, subfolders[i]) ELSE path_docx
    /\ IF IsTex(fs, subfolders[i])
       THEN count_tex' = count_tex + 1
            /\ path_tex' = Append(path_tex, subfolders[i])
       ELSE UNCHANGED <<count_tex, path_tex>>
    /\ i' = i + 1
    /\ UNCHANGED <<fs, pc, exc, out, subfolders, not_defineds, count, j>>

\* lines 17-27: one iteration of the classification loop
Classify ==
    /\ pc = "classify"
    /\ i <= Len(subfolders)
    /\ folder' = subfolders[i]
    /\ files' = RegularFiles(fs, subfolders[i])
    /\ IF IsPdf(fs, subfolders[i])
       THEN count_pdf' = count_pdf + 1
            /\ path_pdf' = Append(path_pdf, subfolders[i])
       ELSE UNCHANGED <<count_pdf, path_pdf>>
    /\ IF IsDocx(fs, subfolders[i])
       THEN count_docx' = count_docx + 1
            /\ path_docx' = Append(path_docx, subfolders[i])
       ELSE UNCHANGED <<count_docx, path_docx>>
    /\ IF IsTex(fs, subfolders[i])
       THEN count_tex' = count_tex + 1
            /\ path_tex' = Append(path_tex, subfolders[i])
       ELSE UNCHANGED <<count_tex, path_tex>>
    /\ i' = i + 1
    /\ UNCHANGED <<fs, pc, exc, out, subfolders, not_defineds, count, j>>

\* line 18 inside a try whose except clause goes on with the next folder
ScanFolderFailSkip ==
    /\ pc = "classify"
    /\ i <= Len(subfolders)
    /\ folder' = subfolders[i]
    /\ exc' = "OSError"
    /\ i' = i + 1
    /\ UNCHANGED <<fs, pc, out, subfolders, count_pdf, path_pdf, count_docx,
                   path_docx, count_tex, path_tex, files, not_defineds,
                   count, j>>

\* line 18, os.scandir(folder) raises OSError
ScanFolderFail ==
    /\ pc = "classify"
    /\ i <= Len(subfolders)
    /\ folder' = subfolders[i]
    /\ exc' = "OSError"
    /\ pc' = "failed"
    /\ UNCHANGED <<fs, out, subfolders, count_pdf, path_pdf, count_docx,
                   path_docx, count_tex, path_tex, i, files, not_defineds,
                   count, j>>

\* line 29, reached when the loop of line 17 is exhausted
PrintPdf ==
    /\ pc = "classify"
    /\ i > Len(subfolders)
    /\ out' = Append(out, Line("Number of Pdf: ", count_pdf))
    /\ pc' = "print_docx"
    /\ UNCHANGED <<fs, exc, subfolders, count_pdf, path_pdf, count_docx,
                   path_docx, count_tex, path_tex, i, folder, files,
                   not_defineds, count, j>>

\* line 30
PrintDocx ==
    /\ pc = "print_docx"
    /\ out' = Append(out, Line("Number of Docx: ", count_docx))
    /\ pc' = "print_tex"
    /\ UNCHANGED <<fs, exc, subfolders, count_pdf, path_pdf, count_docx,
                   path_docx, count_tex, path_tex, i, folder, files,
                   not_defineds, count, j>>

\* line 31 printing under the label of line 30
PrintTexAsDocx ==
    /\ pc = "print_tex"
    /\ out' = Append(out, Line("Number of Docx: ", count_tex))
    /\ pc' = "print_total"
    /\ UNCHANGED <<fs, exc, subfolders, count_pdf, path_pdf, count_docx,
                   path_docx, count_tex, path_tex, i, folder, files,
                   not_defineds, count, j>>

\* line 31
PrintTex ==
    /\ pc = "print_tex"
    /\ out' = Append(out, Line("Number of Tex: ", count_tex))
    /\ pc' = "print_total"
    /\ UNCHANGED <<fs, exc, subfolders, count_pdf, path_pdf, count_docx,
                   path_docx, count_tex, path_tex, i, folder, files,
                   not_defineds, count, j>>

\* line 32
PrintTotal ==
    /\ pc = "print_total"
    /\ out' = Append(out, Line("Number Total: ",
                               count_pdf + count_docx + count_tex))
    /\ pc' = "copy"
    /\ UNCHANGED <<fs, exc, subfolders, count_pdf, path_pdf, count_docx,
                   path_docx, count_tex, path_tex, i, folder, files,
                   not_defineds, count, j>>

\* lines 34-35, and the iterator of the for loop of line 36
CopySubfolders ==
    /\ pc = "copy"
    /\ not_defineds' = subfolders
    /\ count' = 0
    /\ j' = 1
    /\ pc' = "remove"
    /\ UNCHANGED <<fs, exc, out, subfolders, count_pdf, path_pdf, count_docx,
                   path_docx, count_tex, path_tex, i, folder, files>>

\* the removal loop when line 34 is not_defineds = subfolders, so that
\* remove() shortens the list the loop iterates over
RemoveStepAliased ==
    /\ pc = "remove"
    /\ j <= Len(subfolders)
    /\ folder' = subfolders[j]
    /\ IF InSomeCategory(subfolders[j], path_pdf, path_docx, path_tex)
       THEN /\ count' = count + 1
            /\ not_defineds' = ListRemove(not_defineds, subfolders[j])
            /\ subfolders' = ListRemove(subfolders, subfolders[j])
       ELSE UNCHANGED <<count, not_defineds, subfolders>>
    /\ j' = j + 1
    /\ UNCHANGED <<fs, pc, exc, out, count_pdf, path_pdf,
                   count_docx, path_docx, count_tex, path_tex, i, files>>

\* lines 36-40: one iteration of the removal loop; not_defineds is a list of
\* its own (line 34 copies), so remove() leaves subfolders alone
RemoveStep ==
    /\ pc = "remove"
    /\ j <= Len(subfolders)
    /\ folder' = subfolders[j]
    /\ IF InSomeCategory(subfolders[j], path_pdf, path_docx, path_tex)
       THEN count' = count + 1
            /\ not_defineds' = ListRemove(not_defineds, subfolders[j])
       ELSE UNCHANGED <<count, not_defineds>>
    /\ j' = j + 1
    /\ UNCHANGED <<fs, pc, exc, out, subfolders, count_pdf, path_pdf,
                   count_docx, path_docx, count_tex, path_tex, i, files>>

\* line 42, reached when the loop of line 36 is exhausted
PrintNotDefineds ==
    /\ pc = "remove"
    /\ j > Len(subfolders)
    /\ out' = Append(out, Line("not_defineds", not_defineds))
    /\ pc' = "print_len"
    /\ UNCHANGED <<fs, exc, subfolders, count_pdf, path_pdf, count_docx,
                   path_docx, count_tex, path_tex, i, folder, files,
                   not_defineds, count, j>>

\* line 43
PrintLenNotDefineds ==
    /\ pc = "print_len"
    /\ out' = Append(out, Line("len(not_defineds)", Len(not_defineds)))
    /\ pc' = "print_path_tex"
    /\ UNCHANGED <<fs, exc, subfolders, count_pdf, path_pdf, count_docx,
                   path_docx, count_tex, path_tex, i, folder, files,
                   not_defineds, count, j>>

\* line 44, the last statement
PrintPathTex ==
    /\ pc = "print_path_tex"
    /\ out' = Append(out, Line("path_tex", path_tex))
    /\ pc' = "done"
    /\ UNCHANGED <<fs, exc, subfolders, count_pdf, path_pdf, count_docx,
                   path_docx, count_tex, path_tex, i, folder, files,
                   not_defineds, count, j>>

Next ==
    \/ ScanBase
    \/ ScanBaseFail
    \/ PrintSubfolders
    \/ InitCounters
    \/ Classify
    \/ ScanFolderFail
    \/ PrintPdf
    \/ PrintDocx
    \/ PrintTex
    \/ PrintTotal
    \/ CopySubfolders
    \/ RemoveStep
    \/ PrintNotDefineds
    \/ PrintLenNotDefineds
    \/ PrintPathTex

Spec == Init /\ [][Next]_vars

\* the interpreter runs the next statement as long as there is one
FairSpec == Spec /\ WF_vars(Next)

(***************************************************************************)
(* Vocabulary of the properties.                                           *)
(***************************************************************************)
Elems(lst) == { lst[k] : k \in 1..Len(lst) }

NoDuplicates(lst) == \A a, b \in 1..Len(lst) : a # b => lst[a] # lst[b]

RECURSIVE IsSubsequence(_, _)
IsSubsequence(a, b) ==
    IF a = <<>> THEN TRUE
    ELSE IF b = <<>> THEN FALSE
    ELSE IF Head(a) = Head(b) THEN IsSubsequence(Tail(a), Tail(b))
    ELSE IsSubsequence(a, Tail(b))

\* the folders the classification loop has finished with
Processed == { subfolders[k] : k \in 1..(i - 1) }

\* the classification loop has processed its last folder
PassDone ==
    \/ pc = "classify" /\ i > Len(subfolders)
    \/ pc \in {"print_docx", "print_tex", "print_total", "copy", "remove",
               "print_len", "print_path_tex", "done"}

\* the removal loop has processed its last folder
RemovalDone ==
    \/ pc = "remove" /\ j > Len(subfolders)
    \/ pc \in {"print_len", "print_path_tex", "done"}

\* the folders that are in at least one category list
Classified == Elems(path_pdf) \cup Elems(path_docx) \cup Elems(path_tex)

\* a folder is in more than one category list
Overlap ==
    \E x \in Classified :
        \/ x \in Elems(path_pdf) /\ x \in Elems(path_docx)
        \/ x \in Elems(path_pdf) /\ x \in Elems(path_tex)
        \/ x \in Elems(path_docx) /\ x \in Elems(path_tex)

\* the labels of the eight outputs, in the order of section 6 of the spec
OutputLabels ==
    <<"subfolders", "Number of Pdf: ", "Number of Docx: ", "Number of Tex: ",
      "Number Total: ", "not_defineds", "len(not_defineds)", "path_tex">>

(***************************************************************************)
(* The classification rules of section 4.1 of the spec, read on the        *)
(* folder's own regular files.                                             *)
(***************************************************************************)
\* exactly one regular file in total, and its name matches pat
RuleSingleFile(k, pat) ==
    LET regular == { e \in fs[k].entries : e.kind = "file" }
    IN  /\ Cardinality(regular) = 1
        /\ \A e \in regular : FnMatch(e.name, pat)

\* more than one regular file in total, and one of them matches *.tex
RuleTex(k) ==
    LET regular == { e \in fs[k].entries : e.kind = "file" }
    IN  /\ Cardinality(regular) > 1
        /\ \E e \in regular : FnMatch(e.name, PatTex)

\* C1: single-file rule.  Every folder the pass has processed is in the PDF
\* list if and only if it holds exactly one regular file and that file
\* matches *.pdf, and in the DOCX list if and only if it holds exactly one
\* regular file and that file matches *.docx.
C1_SingleFileRule ==
    \A k \in Processed :
        /\ k \in Elems(path_pdf) <=> RuleSingleFile(k, PatPdf)
        /\ k \in Elems(path_docx) <=> RuleSingleFile(k, PatDocx)

\* C2: mutual exclusivity.  No folder is in both the PDF and the DOCX list,
\* nor in the TeX list together with the PDF or the DOCX list.
C2_MutuallyExclusive ==
    \A k \in Elems(subfolders) :
        /\ ~(k \in Elems(path_pdf) /\ k \in Elems(path_docx))
        /\ ~(k \in Elems(path_tex) /\ k \in Elems(path_pdf))
        /\ ~(k \in Elems(path_tex) /\ k \in Elems(path_docx))

\* C4: TeX rule.  Every folder the pass has processed is in the TeX list if
\* and only if it holds more than one regular file and one of its regular
\* files matches *.tex; such a folder is in neither the PDF nor the DOCX
\* list.
C4_TexRule ==
    \A k \in Processed :
        /\ k \in Elems(path_tex) <=> RuleTex(k)
        /\ k \in Elems(path_tex) =>
               k \notin Elems(path_pdf) /\ k \notin Elems(path_docx)

(***************************************************************************)
(* The classification of a folder as a function of the folder's own        *)
(* entries alone: the conditions of lines 19, 22 and 25 with every glob    *)
(* confined to the folder.                                                 *)
(***************************************************************************)
OwnMatches(k, pat) == { e \in fs[k].entries : GlobMatches(e.name, pat) }

OwnRegular(k) == { e \in fs[k].entries : e.kind = "file" }

OwnCategories(k) ==
    [pdf  |-> Cardinality(OwnRegular(k)) = 1
              /\ Cardinality(OwnMatches(k, PatPdf)) = 1,
     docx |-> Cardinality(OwnRegular(k)) = 1
              /\ Cardinality(OwnMatches(k, PatDocx)) = 1,
     tex  |-> Cardinality(OwnRegular(k)) > 1
              /\ Cardinality(OwnMatches(k, PatTex)) > 0]

\* C9: every folder is processed once and independently.  The lists a
\* processed folder is in are decided by the folder's own content; every
\* category list and the unclassified list hold each folder at most once and
\* are subsequences of the enumerated subfolder list.
C9_IndependentOnce ==
    /\ \A k \in Processed :
          /\ k \in Elems(path_pdf) <=> OwnCategories(k).pdf
          /\ k \in Elems(path_docx) <=> OwnCategories(k).docx
          /\ k \in Elems(path_tex) <=> OwnCategories(k).tex
    /\ NoDuplicates(path_pdf) /\ IsSubsequence(path_pdf, subfolders)
    /\ NoDuplicates(path_docx) /\ IsSubsequence(path_docx, subfolders)
    /\ NoDuplicates(path_tex) /\ IsSubsequence(path_tex, subfolders)
    /\ NoDuplicates(not_defineds) /\ IsSubsequence(not_defineds, subfolders)

\* the part of C9 about the lists alone
ListsAreSubsequences ==
    /\ NoDuplicates(path_pdf) /\ IsSubsequence(path_pdf, subfolders)
    /\ NoDuplicates(path_docx) /\ IsSubsequence(path_docx, subfolders)
    /\ NoDuplicates(path_tex) /\ IsSubsequence(path_tex, subfolders)
    /\ NoDuplicates(not_defineds) /\ IsSubsequence(not_defineds, subfolders)

\* the part of C2 about the TeX list
TexExcludesSingleFile ==
    \A k \in Elems(subfolders) :
        k \in Elems(path_tex) =>
            k \notin Elems(path_pdf) /\ k \notin Elems(path_docx)

\* C3: partition invariant.  Once the removal loop is over, not_defineds is
\* the subfolder list restricted to the folders that are in no category
\* list, each once, and its length plus the number of distinct folders that
\* are in some category list is the number of subfolders.
C3_Partition ==
    RemovalDone =>
        /\ not_defineds = SelectSeq(subfolders, LAMBDA x : x \notin Classified)
        /\ NoDuplicates(not_defineds)
        /\ Len(not_defineds) + Cardinality(Classified) = Len(subfolders)

\* the run is over with one folder in two category lists and one folder in
\* none
C3_Witness ==
    /\ pc = "done"
    /\ Overlap
    /\ Len(not_defineds) = 1
    /\ Len(subfolders) = 2

\* C5: output ordering.  The outputs are always a prefix of the eight
\* outputs in the order of the spec, each printed once; in the final state
\* all eight are there with the values of the run; nothing happens after
\* the last one; and every run eventually ends, a run without failure in
\* the final state.
C5_OutputOrder ==
    /\ [](/\ Len(out) <= 8
          /\ \A k \in 1..Len(out) : out[k].label = OutputLabels[k])
    /\ [][\/ out' = out
          \/ Len(out') = Len(out) + 1 /\ SubSeq(out', 1, Len(out)) = out]_vars
    /\ [](pc = "done" =>
            /\ Len(out) = 8
            /\ out[1].val = subfolders
            /\ out[2].val = Len(path_pdf)
            /\ out[3].val = Len(path_docx)
            /\ out[4].val = Len(path_tex)
            /\ out[5].val = Len(path_pdf) + Len(path_docx) + Len(path_tex)
            /\ out[6].val = not_defineds
            /\ out[7].val = Len(not_defineds)
            /\ out[8].val = path_tex)
    /\ [][pc # "done"]_vars
    /\ <>(pc = "done" \/ exc # "none")

\* a run without failure has ended, with folders in the lists it printed
C5_Witness ==
    /\ pc = "done"
    /\ exc = "none"
    /\ Len(out) = 8
    /\ out[4].val > 0
    /\ out[7].val > 0

\* C6, as claimed: no output occurs before the classification loop has
\* processed its last folder.
C6_NoOutputBeforePassDone == Len(out) > 0 => PassDone

\* C6, amended: before the classification loop has processed its last
\* folder the only output is the list of subfolders, printed before the loop
\* starts; an iteration of the loop prints nothing and changes only the
\* category lists, the counters and the loop's own variables.
C6_OutputAfterPass ==
    /\ [](~PassDone /\ Len(out) > 0 =>
            /\ out = <<Line("subfolders", subfolders)>>
            /\ pc \in {"init", "classify", "failed"})
    /\ [][pc = "classify" /\ pc' = "classify" =>
            /\ out' = out
            /\ subfolders' = subfolders
            /\ fs' = fs
            /\ not_defineds' = not_defineds
            /\ count' = count
            /\ j' = j]_vars

\* the loop is between two folders, the second one still to be classified
C6_Witness ==
    /\ pc = "classify"
    /\ i = 2
    /\ Len(subfolders) = 2
    /\ Len(out) = 1
    /\ Classified # {}

\* C7: failure aborts the run.  Once a scan has failed the process is in
\* its failed state and takes no further step; nothing but the list of
\* subfolders has been printed, and neither the failing folder nor a later
\* one is in a category list.
C7_FailureAborts ==
    /\ [](exc # "none" =>
            /\ pc = "failed"
            /\ \A k \in 1..Len(out) : out[k].label = "subfolders"
            /\ \A k \in 1..Len(subfolders) :
                   k >= i => subfolders[k] \notin Classified)
    /\ [][exc = "none"]_vars

\* the scan of the second folder failed after the first was classified
C7_Witness ==
    /\ pc = "failed"
    /\ exc = "OSError"
    /\ i = 2
    /\ Len(subfolders) = 2
    /\ Classified # {}

C10_RemovalOnCopy ==
    /\ [][PassDone =>
            /\ subfolders' = subfolders
            /\ path_pdf' = path_pdf /\ count_pdf' = count_pdf
            /\ path_docx' = path_docx /\ count_docx' = count_docx
            /\ path_tex' = path_tex /\ count_tex' = count_tex]_vars
    /\ [][pc = "remove" /\ pc' = "remove" =>
            j' = j + 1 /\ folder' = subfolders[j]]_vars
    /\ [](RemovalDone => j = Cardinality(DirsOf(fs)) + 1)
    /\ [](pc = "done" => out[8].val = path_tex)

\* the run is over and the first of two folders was removed from
\* not_defineds
C10_Witness ==
    /\ pc = "done"
    /\ Len(subfolders) = 2
    /\ subfolders[1] \in Classified
    /\ subfolders[1] \notin Elems(not_defineds)
    /\ out[8].val # <<>>

====
